---- MODULE Spec2Model ----
(***************************************************************************)
(* Client side of the display-server wire protocol, src/wayland-client.c. *)
(*                                                                         *)
(* Bytes are naturals 0..255.  A uint32_t is kept as its four bytes in     *)
(* host (little-endian) order, so 32-bit wrap-around is exact and never    *)
(* exceeds the checker's integers.  Byte counts and 16-bit fields are      *)
(* plain integers.  Interface names are sequences of character codes.      *)
(* Allocation (malloc) is taken to succeed.                                *)
(***************************************************************************)
EXTENDS Integers, Sequences, FiniteSets, TLC

(***************************** bounds **************************************)
\* Messages the server sends in one behaviour of the dispatch specification.
MaxMsgs == 3
\* GLOBAL events the server sends in one behaviour of the registry specification.
MaxGlobals == 4
\* Messages handled in one behaviour (caps the dispatch log).
MaxHandled == 4
\* Calls of wl_display_allocate_id in one behaviour.
MaxAlloc == 3
\* Transport writes in one behaviour.
MaxWrites == 2
\* Calls of the application's update callback in one behaviour.
MaxUpdates == 3

(************************ program constants ********************************)
\* uint32_t p[32] in handle_event, uint32_t args[32] in wl_proxy_vmarshal.
ScratchWords == 32
\* sizeof(uint32_t)
WordBytes == 4
\* sizeof p for uint32_t p[2] in wl_display_iterate: the message header.
HeaderBytes == 8
\* object id of the display, tested in handle_event.
DisplayObject == 1
\* opcode of the GLOBAL event of the display interface (wayland-protocol.h).
WL_DISPLAY_GLOBAL == 3

ScratchBytes == ScratchWords * WordBytes

(************************** bytes and words ********************************)
Byte == 0..255

\* The four bytes of a uint32_t holding n, for 0 <= n < 2^31.
U32(n) ==
  << n % 256, (n \div 256) % 256, (n \div 65536) % 256, (n \div 16777216) % 256 >>

\* The two bytes of a 16-bit field.
U16(n) == << n % 256, (n \div 256) % 256 >>

\* Value of the 16-bit field at bytes i, i+1 of b.
Get16(b, i) == b[i] + 256 * b[i + 1]

\* The four bytes at i..i+3 of b, as a uint32_t.
Get32(b, i) == SubSeq(b, i, i + 3)

Zero32 == << 0, 0, 0, 0 >>

\* x + 1 on uint32_t: increment with carry, wrapping at 2^32.
Inc32(x) ==
  IF x[1] < 255 THEN << x[1] + 1, x[2], x[3], x[4] >>
  ELSE IF x[2] < 255 THEN << 0, x[2] + 1, x[3], x[4] >>
  ELSE IF x[3] < 255 THEN << 0, 0, x[3] + 1, x[4] >>
  ELSE IF x[4] < 255 THEN << 0, 0, 0, x[4] + 1 >>
  ELSE Zero32

\* DIV_ROUNDUP(n, a)
DIV_ROUNDUP(n, a) == (n + a - 1) \div a

\* The C string held in a byte buffer: the bytes before the first NUL.
RECURSIVE CStr(_)
CStr(b) ==
  IF b = << >> \/ Head(b) = 0 THEN << >> ELSE << Head(b) >> \o CStr(Tail(b))

\* strcmp(a, b) == 0
StrEq(a, b) == CStr(a) = CStr(b)

(************************** interface names ********************************)
NameVisual == << 118, 105, 115, 117, 97, 108 >>         \* "visual"
NameDisplay == << 100, 105, 115, 112, 108, 97, 121 >>   \* "display"
NameCompositor == << 99, 111, 109, 112, 111, 115, 105, 116, 111, 114 >>  \* "compositor"
NameNone == << 110, 111, 110, 101 >>                    \* "none", never sent

LookupNames == { NameVisual, NameDisplay, NameCompositor, NameNone }

(*********************** messages the server sends *************************)
\* [length: u32][bytes][zero pad to a 4-byte boundary]
WireString(name) ==
  U32(Len(name)) \o name
    \o [ i \in 1..(WordBytes * DIV_ROUNDUP(Len(name), WordBytes) - Len(name)) |-> 0 ]

\* [object: u32][opcode: u16 | size: u16][payload]
Message(object, opcode, payload) ==
  object \o U16(opcode) \o U16(HeaderBytes + Len(payload)) \o payload

GlobalMsg(id, name, version) ==
  Message(U32(DisplayObject), WL_DISPLAY_GLOBAL, id \o WireString(name) \o U32(version))

\* Every global named "compositor" is advertised with this id.
CompositorId == U32(9)
\* The n-th message, when it advertises a global of its own, carries this id.
VisualId(n) == U32(10 + n)
\* Object the server's plain events are addressed to.
EventObject == U32(2)

\* Kinds of message the server may send.
\*   visual, compositor : well-formed GLOBAL events
\*   event         : a well-formed event for the application, 16 bytes
\*   big           : an event declaring 132 bytes, more than the scratch buffer
\*   zero          : a bare header declaring size 0
\*   badglobal     : a GLOBAL event whose name length points past its end
WellFormedKinds == { "visual", "compositor", "event" }
AllKinds == WellFormedKinds \cup { "big", "zero", "badglobal" }

\* The bytes of the n-th message sent, of kind k.
MsgBytes(k, n) ==
  CASE k = "visual" -> GlobalMsg(VisualId(n), NameVisual, 1)
    [] k = "compositor" -> GlobalMsg(CompositorId, NameCompositor, 1)
    [] k = "event" -> Message(EventObject, 0, U32(7) \o U32(8))
    [] k = "big" -> Message(EventObject, 0, [ i \in 1..(ScratchBytes - 4) |-> 5 ])
    [] k = "zero" -> EventObject \o U16(0) \o U16(0)
    [] k = "badglobal" ->
         Message(U32(DisplayObject), WL_DISPLAY_GLOBAL,
                 VisualId(n) \o U32(64) \o NameVisual \o << 0, 0 >>)

\* Seeds the server may hand out in the handshake.
SeedLow == << 0, 1, 0, 0 >>              \* 256
SeedHigh == << 254, 255, 255, 255 >>     \* 2^32 - 2

(******************************* state *************************************)
VARIABLES
  universe,       \* kinds of message the server sends in this behaviour
  limit,          \* number of messages the server sends in this behaviour
  seed,           \* the four handshake bytes the server sends first
  wire,           \* every byte the server has sent on the socket so far
  ends,           \* offset in wire of the end of each message sent
  kinds,          \* kind of each message sent
  phase,          \* "none", "creating", "ready", "null", "exited", "crashed", "destroyed"
  fd,             \* display->fd: "none", "open", "closed"
  id,             \* display->id, the id counter
  proxy_id,       \* display->proxy.id
  hs,             \* bytes of wire the handshake read took
  head,           \* bytes of wire read from the socket so far
  tail,           \* bytes of wire consumed: the transport's cursor
  pc,             \* "idle", or "loop" inside wl_display_iterate
  len,            \* local len of wl_display_iterate
  global_list,    \* display->global_list, in list order
  visual_list,    \* display->visual_list, in list order: proxy.id of each
  event_handler,  \* display->event_handler: 0 is NULL
  handled,        \* log of messages handed on by handle_event: to the registry
                  \* (global) or to the handler then registered (0: dropped)
  stalled,        \* cursor of the last pass that stopped at a partial message, or -1
  overrun,        \* a copy wrote past the end of a scratch buffer
  ret,            \* what the last call of the application returned
  nalloc,         \* calls of wl_display_allocate_id so far
  writes,         \* buffers handed to wl_connection_write, in order
  compositor,     \* proxy.id of the compositor proxy made last, << >> when none
  surfaces,       \* proxy.id of each surface proxy made, in order
  mask,           \* display->mask
  update,         \* display->update: 0 is NULL
  delivered,      \* calls of the application's update callback: which, with what mask
  reported        \* mask the transport passed to connection_update last, -1 when none

vars ==
  << universe, limit, seed, wire, ends, kinds, phase, fd, id, proxy_id, hs, head, tail, pc, len,
     global_list, visual_list, event_handler, handled, stalled, overrun, ret, nalloc,
     writes, compositor, surfaces, mask, update, delivered, reported >>

serverVars == << universe, limit, seed, wire, ends, kinds >>
listVars == << global_list, visual_list >>
passVars == << hs, head, tail, pc, len, handled, stalled, overrun >>
callVars == << nalloc, writes, compositor, surfaces >>
maskVars == << mask, update, delivered, reported >>

NoRet == [ op |-> "none" ]

InitWith(U, L, S) ==
  /\ universe \in U
  /\ limit = L
  /\ seed \in S
  /\ wire = seed
  /\ ends = << >>
  /\ kinds = << >>
  /\ phase = "none"
  /\ fd = "none"
  /\ id = Zero32
  /\ proxy_id = Zero32
  /\ hs = 0
  /\ head = 0
  /\ tail = 0
  /\ pc = "idle"
  /\ len = 0
  /\ global_list = << >>
  /\ visual_list = << >>
  /\ event_handler = 0
  /\ handled = << >>
  /\ stalled = -1
  /\ overrun = FALSE
  /\ ret = NoRet
  /\ nalloc = 0
  /\ writes = << >>
  /\ compositor = << >>
  /\ surfaces = << >>
  /\ mask = 0
  /\ update = 0
  /\ delivered = << >>
  /\ reported = -1

\* The server writes one more message to the socket.
ServerSend ==
  /\ Len(kinds) < limit
  /\ phase \in { "none", "creating", "ready" }
  /\ \E k \in universe :
       /\ wire' = wire \o MsgBytes(k, Len(kinds) + 1)
       /\ ends' = Append(ends, Len(wire'))
       /\ kinds' = Append(kinds, k)
  /\ UNCHANGED << maskVars, universe, limit, seed, phase, fd, id, proxy_id, passVars, listVars,
                  event_handler, ret, callVars >>

(************************* the buffered transport **************************)
\* Offset in wire where the i-th message starts.
MsgStart(i) == IF i = 1 THEN Len(seed) ELSE ends[i - 1]

\* Offsets at which a read from the socket may stop: the end of the seed, and
\* inside each message after 4, 8 and 12 of its bytes and at its end.
CutPoints ==
  { Len(seed) } \cup
  UNION { { c \in { MsgStart(i) + 4, MsgStart(i) + 8, MsgStart(i) + 12, ends[i] } :
              c <= ends[i] } : i \in 1..Len(ends) }

\* wl_connection_data(connection, mask), with h bytes read so far and t
\* consumed: the pairs << new head, result >>.  The result is the number of
\* bytes buffered, or negative on a read error.
wl_connection_data(h, t) ==
  { << h, -1 >> } \cup { << c, c - t >> : c \in { h } \cup { c \in CutPoints : c > h } }

\* wl_connection_copy(connection, p, n): the n bytes at the cursor, not consumed.
wl_connection_copy(n) == SubSeq(wire, tail + 1, tail + n)

(****************************** registry ***********************************)
RECURSIVE ScanGlobals(_, _, _)
ScanGlobals(list, i, interface) ==
  IF i > Len(list) THEN Zero32
  ELSE IF StrEq(list[i].interface, interface) THEN list[i].id
  ELSE ScanGlobals(list, i + 1, interface)

\* A scan that keeps going and returns the last match.
RECURSIVE ScanGlobalsLast(_, _, _, _)
ScanGlobalsLast(list, i, interface, found) ==
  IF i > Len(list) THEN found
  ELSE ScanGlobalsLast(list, i + 1, interface,
                       IF StrEq(list[i].interface, interface) THEN list[i].id ELSE found)

wl_display_get_object_id_last(list, interface) == ScanGlobalsLast(list, 1, interface, Zero32)

wl_display_get_object_id(list, interface) == ScanGlobals(list, 1, interface)

\* add_visual inserting after the list head instead of before it.
add_visual_front(vlist, global) == << global.id >> \o vlist

\* add_visual: a visual whose proxy.id is the global's id, at the list's tail.
add_visual(vlist, global) == Append(vlist, global.id)

\* The record the accessor that follows k links from the list head returns.
\* The list is circular through its head, so with n visuals the k-th link
\* lands on entry k % (n + 1); entry 0 is the head itself, inside the display.
NthVisual(vlist, k) ==
  LET at == k % (Len(vlist) + 1) IN
  IF at = 0 THEN [ kind |-> "head" ] ELSE [ kind |-> "visual", at |-> at, id |-> vlist[at] ]

wl_display_get_argb_visual(vlist) == NthVisual(vlist, 1)
wl_display_get_premultiplied_argb_visual(vlist) == NthVisual(vlist, 2)
wl_display_get_rgb_visual(vlist) == NthVisual(vlist, 3)

\* wl_connection_consume(connection, n): the cursor after n more bytes.
wl_connection_consume(n) == tail + n

(*************************** event dispatch ********************************)
\* What a read of memory the message never filled may yield.
Garbage32 == << 170, 170, 170, 170 >>
GarbageFill == { 0, 170 }

\* handle_global decodes p = m + 8: id at bytes 9..12 of the message m, the
\* name length at 13..16, the name from 17, the version at the next word
\* boundary after the name.  Nothing compares these places with the message's
\* size: a read past the bytes copied is undefined, and either faults or
\* yields whatever the stack holds.  The set of outcomes.
GlobalDecode(m) ==
  LET n == Len(m)
      haveLen == n >= 16
      lenBytes == Get32(m, 13)
      small == haveLen /\ lenBytes[3] = 0 /\ lenBytes[4] = 0
      length == IF small THEN Get16(lenBytes, 1) ELSE 0
      verAt == 17 + WordBytes * DIV_ROUNDUP(length, WordBytes)
      gid == IF n >= 12 THEN Get32(m, 9) ELSE Garbage32
  IN
  IF small /\ verAt + 3 <= n
  THEN { [ fault |-> FALSE,
           global |-> [ id |-> gid, interface |-> SubSeq(m, 17, 16 + length),
                        version |-> Get32(m, verAt) ] ] }
  ELSE { [ fault |-> TRUE ] } \cup
       { [ fault |-> FALSE,
           global |-> [ id |-> gid,
                        interface |->
                          IF small
                          THEN SubSeq(m, 17, IF n < 16 + length THEN n ELSE 16 + length)
                                 \o [ i \in 1..(IF n < 16 + length THEN 16 + length - n ELSE 0)
                                        |-> g ]
                          ELSE << g >>,
                        version |-> Garbage32 ] ] : g \in GarbageFill }

handle_global(m) ==
  \E o \in GlobalDecode(m) :
    IF o.fault
    THEN /\ phase' = "crashed"
         /\ UNCHANGED listVars
    ELSE /\ phase' = phase
         /\ global_list' = Append(global_list, o.global)
         /\ visual_list' =
              IF StrEq(o.global.interface, NameVisual)
              THEN add_visual(visual_list, o.global)
              ELSE visual_list

\* handle_event without its wl_connection_consume.
handle_event_noconsume(object, opcode, size) ==
  LET m == wl_connection_copy(size)
      entry(g, h) == [ off |-> tail, object |-> object, opcode |-> opcode,
                       size |-> size, global |-> g, handler |-> h ]
  IN
  /\ overrun' = (overrun \/ size > ScratchBytes)
  /\ \/ /\ size > ScratchBytes
        /\ phase' = "crashed"
        /\ UNCHANGED << global_list, visual_list, handled, tail >>
     \/ /\ IF object = U32(DisplayObject) /\ opcode = WL_DISPLAY_GLOBAL
           THEN handle_global(m)
           ELSE phase' = phase /\ UNCHANGED listVars
        /\ handled' =
             IF phase' = "crashed" THEN handled
             ELSE IF object = U32(DisplayObject) /\ opcode = WL_DISPLAY_GLOBAL
             THEN Append(handled, entry(TRUE, 0))
             ELSE Append(handled, entry(FALSE, event_handler))
        /\ tail' = tail

\* handle_event testing for a registered handler before testing for GLOBAL.
handle_event_handler_first(object, opcode, size) ==
  LET m == wl_connection_copy(size)
      entry(g, h) == [ off |-> tail, object |-> object, opcode |-> opcode,
                       size |-> size, global |-> g, handler |-> h ]
      toRegistry == event_handler = 0 /\ object = U32(DisplayObject)
                      /\ opcode = WL_DISPLAY_GLOBAL
  IN
  /\ overrun' = (overrun \/ size > ScratchBytes)
  /\ \/ /\ size > ScratchBytes
        /\ phase' = "crashed"
        /\ UNCHANGED << global_list, visual_list, handled, tail >>
     \/ /\ IF toRegistry
           THEN handle_global(m)
           ELSE phase' = phase /\ UNCHANGED listVars
        /\ handled' =
             IF phase' = "crashed" THEN handled
             ELSE IF toRegistry
             THEN Append(handled, entry(TRUE, 0))
             ELSE Append(handled, entry(FALSE, event_handler))
        /\ tail' = IF phase' = "crashed" THEN tail ELSE wl_connection_consume(size)

\* handle_event: copy size bytes into uint32_t p[32], route, consume.
\* A copy of more than the buffer holds writes past its end: undefined, it
\* either faults or goes on with the whole message in place.
handle_event(object, opcode, size) ==
  LET m == wl_connection_copy(size)
      entry(g, h) == [ off |-> tail, object |-> object, opcode |-> opcode,
                       size |-> size, global |-> g, handler |-> h ]
  IN
  /\ overrun' = (overrun \/ size > ScratchBytes)
  /\ \/ /\ size > ScratchBytes
        /\ phase' = "crashed"
        /\ UNCHANGED << global_list, visual_list, handled, tail >>
     \/ /\ IF object = U32(DisplayObject) /\ opcode = WL_DISPLAY_GLOBAL
           THEN handle_global(m)
           ELSE phase' = phase /\ UNCHANGED listVars
        /\ handled' =
             IF phase' = "crashed" THEN handled
             ELSE IF object = U32(DisplayObject) /\ opcode = WL_DISPLAY_GLOBAL
             THEN Append(handled, entry(TRUE, 0))
             ELSE Append(handled, entry(FALSE, event_handler))
        /\ tail' = IF phase' = "crashed" THEN tail ELSE wl_connection_consume(size)

\* The header at the cursor, as wl_display_iterate unpacks it.
HeaderObject == Get32(wl_connection_copy(HeaderBytes), 1)
HeaderOpcode == Get16(wl_connection_copy(HeaderBytes), 5)
HeaderSize == Get16(wl_connection_copy(HeaderBytes), 7)

\* wl_display_iterate returns; inside wl_display_create that returns the display.
IterateReturn ==
  /\ pc' = "idle"
  /\ phase' = IF phase = "creating" THEN "ready" ELSE phase
  /\ ret' = IF phase = "creating" THEN [ op |-> "create", val |-> "display" ] ELSE ret

\* wl_display_iterate, entry: len = wl_connection_data(...).
wl_display_iterate ==
  /\ phase = "ready" /\ pc = "idle"
  /\ \E d \in wl_connection_data(head, tail) :
       /\ head' = d[1]
       /\ len' = d[2]
  /\ pc' = "loop"
  /\ UNCHANGED << maskVars, serverVars, phase, fd, id, proxy_id, hs, tail, listVars, event_handler,
                  handled, stalled, overrun, ret, callVars >>

\* while (len > 0) { if (len < sizeof p) break; ... }
iterate_short ==
  /\ pc = "loop" /\ len > 0 /\ len < HeaderBytes
  /\ IterateReturn
  /\ UNCHANGED << maskVars, serverVars, fd, id, proxy_id, hs, head, tail, len, listVars,
                  event_handler, handled, stalled, overrun, callVars >>

\* ... if (len < size) break; ...
iterate_partial ==
  /\ pc = "loop" /\ len >= HeaderBytes /\ len < HeaderSize
  /\ IterateReturn
  /\ stalled' = tail
  /\ UNCHANGED << maskVars, serverVars, fd, id, proxy_id, hs, head, tail, len, listVars,
                  event_handler, handled, overrun, callVars >>

\* ... handle_event(display, object, opcode, size); len -= size; }
iterate_dispatch ==
  /\ pc = "loop" /\ len >= HeaderBytes /\ ~(len < HeaderSize)
  /\ Len(handled) < MaxHandled
  /\ handle_event(HeaderObject, HeaderOpcode, HeaderSize)
  /\ len' = IF phase' = "crashed" THEN len ELSE len - HeaderSize
  /\ pc' = IF phase' = "crashed" THEN "idle" ELSE pc
  /\ UNCHANGED << maskVars, serverVars, fd, id, proxy_id, hs, head, event_handler, stalled, ret,
                  callVars >>

\* the loop ends with len = 0
iterate_done ==
  /\ pc = "loop" /\ len = 0
  /\ IterateReturn
  /\ UNCHANGED << maskVars, serverVars, fd, id, proxy_id, hs, head, tail, len, listVars,
                  event_handler, handled, stalled, overrun, callVars >>

\* A read error that is not checked: the pass just returns.
iterate_read_error_ignored ==
  /\ pc = "loop" /\ len < 0
  /\ IterateReturn
  /\ UNCHANGED << maskVars, serverVars, fd, id, proxy_id, hs, head, tail, len, listVars,
                  event_handler, handled, stalled, overrun, callVars >>

\* if (len < 0) { fprintf(stderr, "read error: %m\n"); exit(EXIT_FAILURE); }
iterate_read_error ==
  /\ pc = "loop" /\ len < 0
  /\ pc' = "idle"
  /\ phase' = "exited"
  /\ fd' = "closed"
  /\ UNCHANGED << maskVars, serverVars, id, proxy_id, hs, head, tail, len, listVars,
                  event_handler, handled, stalled, overrun, ret, callVars >>

(************************** session lifecycle ******************************)
\* What read(display->fd, &display->id, 4) may return.
HandshakeReads == { -1, 0, 2, 4 }

\* display->id after a read of r bytes into the zeroed display.
SeedRead(r) == [ i \in 1..4 |-> IF i <= r THEN seed[i] ELSE 0 ]

wl_display_create ==
  /\ phase = "none"
  /\ \/ \* socket() fails: free(display); return NULL
        /\ phase' = "null"
        /\ ret' = [ op |-> "create", val |-> "NULL" ]
        /\ UNCHANGED << fd, id, proxy_id, hs, head, tail, pc, len >>
     \/ \* connect() fails: close(display->fd); free(display); return NULL
        /\ phase' = "null"
        /\ fd' = "closed"
        /\ ret' = [ op |-> "create", val |-> "NULL" ]
        /\ UNCHANGED << id, proxy_id, hs, head, tail, pc, len >>
     \/ \* read(...), its result unused; lists, proxy, connection; first pass
        \E r \in HandshakeReads :
          LET got == IF r < 0 THEN 0 ELSE r IN
          /\ fd' = "open"
          /\ id' = SeedRead(r)
          /\ proxy_id' = wl_display_get_object_id(<< >>, NameDisplay)
          /\ hs' = got
          /\ tail' = got
          /\ \E d \in wl_connection_data(got, got) :
               /\ head' = d[1]
               /\ len' = d[2]
          /\ pc' = "loop"
          /\ phase' = "creating"
          /\ ret' = ret
  /\ UNCHANGED << maskVars, serverVars, listVars, event_handler, handled, stalled, overrun,
                  callVars >>

\* wl_connection_destroy, close, free(display): no global, name or visual is freed.
wl_display_destroy ==
  /\ phase = "ready" /\ pc = "idle"
  /\ phase' = "destroyed"
  /\ fd' = "closed"
  /\ UNCHANGED << maskVars, serverVars, id, proxy_id, passVars, listVars, event_handler,
                  ret, callVars >>

(************************ application-facing calls *************************)
Handlers == { 0, 1, 2 }

wl_display_set_event_handler ==
  /\ phase = "ready" /\ pc = "idle"
  /\ \E h \in Handlers : event_handler' = h
  /\ UNCHANGED << maskVars, serverVars, phase, fd, id, proxy_id, passVars, listVars,
                  ret, callVars >>

GetObjectId ==
  /\ phase = "ready" /\ pc = "idle"
  /\ \E name \in LookupNames :
       ret' = [ op |-> "get_object_id", name |-> name,
                val |-> wl_display_get_object_id(global_list, name) ]
  /\ UNCHANGED << maskVars, serverVars, phase, fd, id, proxy_id, passVars, listVars,
                  event_handler, callVars >>

GetVisual ==
  /\ phase = "ready" /\ pc = "idle"
  /\ \/ ret' = [ op |-> "get_visual", k |-> 1, val |-> wl_display_get_argb_visual(visual_list) ]
     \/ ret' = [ op |-> "get_visual", k |-> 2,
                 val |-> wl_display_get_premultiplied_argb_visual(visual_list) ]
     \/ ret' = [ op |-> "get_visual", k |-> 3, val |-> wl_display_get_rgb_visual(visual_list) ]
  /\ UNCHANGED << maskVars, serverVars, phase, fd, id, proxy_id, passVars, listVars,
                  event_handler, callVars >>

\* return display->id++;
wl_display_allocate_id ==
  /\ phase = "ready" /\ pc = "idle"
  /\ nalloc < MaxAlloc
  /\ ret' = [ op |-> "allocate_id", val |-> id ]
  /\ id' = Inc32(id)
  /\ nalloc' = nalloc + 1
  /\ UNCHANGED << maskVars, serverVars, phase, fd, proxy_id, passVars, listVars,
                  event_handler, writes, compositor, surfaces >>

\* Masks the transport may report: subsets of { readable, writable }.
Masks == 0..3
\* Update callbacks the application may install.
Callbacks == { 1, 2 }

\* connection_update that forwards the mask without storing it.
connection_update_nostore ==
  /\ phase = "ready" /\ pc = "idle"
  /\ Len(delivered) < MaxUpdates
  /\ \E m \in Masks :
       /\ reported' = m
       /\ mask' = mask
       /\ delivered' =
            IF update # 0 THEN Append(delivered, [ cb |-> update, mask |-> m ])
            ELSE delivered
  /\ UNCHANGED << update, serverVars, phase, fd, id, proxy_id, passVars, listVars,
                  event_handler, ret, callVars >>

\* connection_update, called by the transport with its new mask:
\* display->mask = mask; if (display->update) display->update(display->mask, ...)
connection_update ==
  /\ phase = "ready" /\ pc = "idle"
  /\ Len(delivered) < MaxUpdates
  /\ \E m \in Masks :
       /\ reported' = m
       /\ mask' = m
       /\ delivered' =
            IF update # 0 THEN Append(delivered, [ cb |-> update, mask |-> mask' ])
            ELSE delivered
  /\ UNCHANGED << update, serverVars, phase, fd, id, proxy_id, passVars, listVars,
                  event_handler, ret, callVars >>

\* wl_display_get_fd: install the callback, call it with display->mask,
\* return display->fd.
wl_display_get_fd ==
  /\ phase = "ready" /\ pc = "idle"
  /\ Len(delivered) < MaxUpdates
  /\ \E cb \in Callbacks :
       /\ update' = cb
       /\ delivered' = Append(delivered, [ cb |-> update', mask |-> mask ])
  /\ ret' = [ op |-> "get_fd", val |-> fd ]
  /\ UNCHANGED << mask, reported, serverVars, phase, fd, id, proxy_id, passVars, listVars,
                  event_handler, callVars >>

(****************************** proxy calls ********************************)
\* Bytes wl_proxy_vmarshal puts in args for the arguments argv of a method
\* of signature sig.  A string is its length, its bytes, and a skip to the
\* next word: the skipped bytes are never written, they hold fill.
RECURSIVE MarshalArgs(_, _, _)
MarshalArgs(sig, argv, fill) ==
  IF sig = << >> THEN << >>
  ELSE
    LET a == Head(argv)
        field ==
          IF Head(sig) = "s"
          THEN U32(Len(a)) \o a
                 \o [ i \in 1..(WordBytes * DIV_ROUNDUP(Len(a), WordBytes) - Len(a)) |-> fill ]
          ELSE a
    IN field \o MarshalArgs(Tail(sig), Tail(argv), fill)

\* wl_proxy_vmarshal handing the header and the payload to the transport in
\* two writes.
wl_proxy_vmarshal_split(target, opcode, sig, argv) ==
  \E fill \in GarbageFill :
    LET payload == MarshalArgs(sig, argv, fill)
        size == HeaderBytes + Len(payload)
    IN
    /\ overrun' = (overrun \/ size > ScratchBytes)
    /\ phase' = phase
    /\ writes' = writes \o << target \o U16(opcode) \o U16(size % 65536), payload >>
    /\ ret' = [ op |-> "call", target |-> target, opcode |-> opcode, sig |-> sig,
                 argv |-> argv, size |-> size,
                 wrote |-> 2 ]

\* wl_proxy_vmarshal: encode into uint32_t args[32], write the header, hand
\* size bytes to wl_connection_write.  Nothing compares the encoding with the
\* array: past its end the stores are undefined, the call either faults or
\* goes on and writes all size bytes.
wl_proxy_vmarshal(target, opcode, sig, argv) ==
  \E fill \in GarbageFill :
    LET payload == MarshalArgs(sig, argv, fill)
        size == HeaderBytes + Len(payload)
        args == target \o U16(opcode) \o U16(size % 65536) \o payload
    IN
    /\ overrun' = (overrun \/ size > ScratchBytes)
    /\ \/ /\ size > ScratchBytes
          /\ phase' = "crashed"
          /\ writes' = writes
       \/ /\ phase' = phase
          /\ writes' = Append(writes, args)
    /\ ret' = [ op |-> "call", target |-> target, opcode |-> opcode, sig |-> sig,
                 argv |-> argv, size |-> size,
                 wrote |-> Len(writes') - Len(writes) ]

CanCall == phase = "ready" /\ pc = "idle" /\ Len(writes) < MaxWrites

wl_display_get_compositor ==
  /\ phase = "ready" /\ pc = "idle"
  /\ LET cid == wl_display_get_object_id(global_list, NameCompositor) IN
       IF cid = Zero32
       THEN /\ ret' = [ op |-> "get_compositor", val |-> "NULL" ]
            /\ compositor' = compositor
       ELSE /\ ret' = [ op |-> "get_compositor", val |-> "compositor" ]
            /\ compositor' = << cid >>
  /\ UNCHANGED << maskVars, serverVars, phase, fd, id, proxy_id, passVars, listVars,
                  event_handler, nalloc, writes, surfaces >>

\* surface->proxy.id = wl_display_allocate_id(...); marshal CREATE_SURFACE "n"
wl_compositor_create_surface ==
  /\ CanCall /\ compositor # << >>
  /\ nalloc < MaxAlloc
  /\ id' = Inc32(id)
  /\ nalloc' = nalloc + 1
  /\ surfaces' = Append(surfaces, id)
  /\ wl_proxy_vmarshal(compositor[1], 0, << "n" >>, << id >>)
  /\ UNCHANGED << maskVars, serverVars, fd, proxy_id, hs, head, tail, pc, len, handled, stalled,
                  listVars, event_handler, compositor >>

\* marshal COMMIT "u"
wl_compositor_commit ==
  /\ CanCall /\ compositor # << >>
  /\ wl_proxy_vmarshal(compositor[1], 1, << "u" >>, << U32(7) >>)
  /\ UNCHANGED << maskVars, serverVars, fd, id, proxy_id, hs, head, tail, pc, len, handled, stalled,
                  listVars, event_handler, nalloc, compositor, surfaces >>

\* marshal DESTROY ""
wl_surface_destroy ==
  /\ CanCall
  /\ \E i \in 1..Len(surfaces) : wl_proxy_vmarshal(surfaces[i], 0, << >>, << >>)
  /\ UNCHANGED << maskVars, serverVars, fd, id, proxy_id, hs, head, tail, pc, len, handled, stalled,
                  listVars, event_handler, nalloc, compositor, surfaces >>

\* The proxy.id read through a wl_visual pointer an accessor returned: a
\* visual's id, or whatever lies in the display before its visual_list when
\* the accessor landed on the list head.
VisualArgs ==
  { IF v.kind = "visual" THEN v.id ELSE Garbage32 :
      v \in { wl_display_get_argb_visual(visual_list),
               wl_display_get_premultiplied_argb_visual(visual_list),
               wl_display_get_rgb_visual(visual_list) } }

\* Values the application passes for the plain 32-bit arguments.
Coords == { U32(0), U32(64) }

\* marshal ATTACH: name, width, height, stride, visual
wl_surface_attach ==
  /\ CanCall
  /\ \E i \in 1..Len(surfaces) : \E w \in Coords : \E v \in VisualArgs :
       wl_proxy_vmarshal(surfaces[i], 1, << "u", "i", "i", "u", "o" >>,
                         << U32(5), w, w, U32(256), v >>)
  /\ UNCHANGED << maskVars, serverVars, fd, id, proxy_id, hs, head, tail, pc, len, handled, stalled,
                  listVars, event_handler, nalloc, compositor, surfaces >>

\* marshal MAP: x, y, width, height
wl_surface_map ==
  /\ CanCall
  /\ \E i \in 1..Len(surfaces) : \E x \in Coords :
       wl_proxy_vmarshal(surfaces[i], 2, << "i", "i", "i", "i" >>,
                         << x, x, U32(64), U32(64) >>)
  /\ UNCHANGED << maskVars, serverVars, fd, id, proxy_id, hs, head, tail, pc, len, handled, stalled,
                  listVars, event_handler, nalloc, compositor, surfaces >>

\* marshal COPY: dst_x, dst_y, name, stride, x, y, width, height
wl_surface_copy ==
  /\ CanCall
  /\ \E i \in 1..Len(surfaces) : \E x \in Coords :
       wl_proxy_vmarshal(surfaces[i], 3, << "i", "i", "u", "u", "i", "i", "i", "i" >>,
                         << x, x, U32(5), U32(256), U32(0), U32(0), U32(64), U32(64) >>)
  /\ UNCHANGED << maskVars, serverVars, fd, id, proxy_id, hs, head, tail, pc, len, handled, stalled,
                  listVars, event_handler, nalloc, compositor, surfaces >>

\* marshal DAMAGE: x, y, width, height
wl_surface_damage ==
  /\ CanCall
  /\ \E i \in 1..Len(surfaces) : \E x \in Coords :
       wl_proxy_vmarshal(surfaces[i], 4, << "i", "i", "i", "i" >>,
                         << x, x, U32(64), U32(64) >>)
  /\ UNCHANGED << maskVars, serverVars, fd, id, proxy_id, hs, head, tail, pc, len, handled, stalled,
                  listVars, event_handler, nalloc, compositor, surfaces >>

\* Signatures and arguments of the calls made on the display proxy in the
\* marshalling specification.
StringArg(n) == [ i \in 1..n |-> 97 + (i % 3) ]
StringLens == { 0, 3, 116, 117 }
ArgsOf(c) ==
  CASE c = "u" -> { U32(7) }
    [] c = "i" -> { U32(9) }
    [] c = "s" -> { StringArg(n) : n \in StringLens }
    [] c = "o" -> { proxy_id }
    [] c = "n" -> { id }
Signatures == { << "u" >>, << "s" >>, << "i", "s" >>, << "s", "o" >>, << "n", "s", "u" >> }

RECURSIVE ArgLists(_)
ArgLists(sig) ==
  IF sig = << >> THEN { << >> }
  ELSE { << a >> \o rest : a \in ArgsOf(Head(sig)), rest \in ArgLists(Tail(sig)) }

\* wl_proxy_marshal(proxy, opcode, ...) on a method of any signature.
wl_proxy_marshal ==
  /\ CanCall
  /\ \E sig \in Signatures : \E argv \in ArgLists(sig) :
       wl_proxy_vmarshal(proxy_id, 0, sig, argv)
  /\ UNCHANGED << maskVars, serverVars, fd, id, proxy_id, hs, head, tail, pc, len, handled, stalled,
                  listVars, event_handler, nalloc, compositor, surfaces >>

(**************************** specifications *******************************)
\* One dispatch pass, step by step.
Pass ==
  \/ iterate_short
  \/ iterate_partial
  \/ iterate_dispatch
  \/ iterate_done
  \/ iterate_read_error

\* The session and its dispatch loop, fed globals, events and over-size events.
Init == InitWith({ { "visual", "event", "big" } }, MaxMsgs, { SeedLow })

Next ==
  \/ ServerSend
  \/ wl_display_create
  \/ wl_display_iterate
  \/ Pass
  \/ wl_display_set_event_handler
  \/ wl_display_destroy

Spec == Init /\ [][Next]_vars

\* The registry and its lookups, fed well-formed GLOBAL events.
InitRegistry == InitWith({ { "visual", "compositor" } }, MaxGlobals, { SeedLow })

NextRegistry ==
  \/ ServerSend
  \/ wl_display_create
  \/ wl_display_iterate
  \/ Pass
  \/ GetObjectId
  \/ GetVisual

SpecRegistry == InitRegistry /\ [][NextRegistry]_vars

\* The id counter among the other calls, for a low and a high seed.
InitIds == InitWith({ { "compositor", "event" } }, MaxMsgs, { SeedLow, SeedHigh })

NextIds ==
  \/ ServerSend
  \/ wl_display_create
  \/ wl_display_iterate
  \/ Pass
  \/ GetObjectId
  \/ wl_display_allocate_id
  \/ wl_display_get_compositor
  \/ wl_compositor_create_surface
  \/ wl_compositor_commit
  \/ wl_surface_destroy

SpecIds == InitIds /\ [][NextIds]_vars

\* Marshalling of calls of every signature.
InitMarshal == InitWith({ { "event" } }, 1, { SeedLow })

NextMarshal ==
  \/ ServerSend
  \/ wl_display_create
  \/ wl_display_iterate
  \/ Pass
  \/ wl_proxy_marshal

SpecMarshal == InitMarshal /\ [][NextMarshal]_vars

\* The readiness mask between the transport and the application's callback.
InitMask == InitWith({ { "event" } }, 1, { SeedLow })

NextMask ==
  \/ ServerSend
  \/ wl_display_create
  \/ wl_display_iterate
  \/ Pass
  \/ connection_update
  \/ wl_display_get_fd

SpecMask == InitMask /\ [][NextMask]_vars

\* The dispatch loop fed headers and GLOBAL events that are not well formed.
InitFraming == InitWith({ { "event", "visual", "zero", "badglobal" } }, MaxMsgs, { SeedLow })

NextFraming ==
  \/ ServerSend
  \/ wl_display_create
  \/ wl_display_iterate
  \/ Pass

SpecFraming == InitFraming /\ [][NextFraming]_vars

\* Every proxy operation, on a session that knows a compositor and visuals.
InitProxy == InitWith({ { "visual", "compositor" } }, 2, { SeedLow, SeedHigh })

ProxyCall ==
  \/ wl_compositor_create_surface
  \/ wl_compositor_commit
  \/ wl_surface_destroy
  \/ wl_surface_attach
  \/ wl_surface_map
  \/ wl_surface_copy
  \/ wl_surface_damage

NextProxy ==
  \/ ServerSend
  \/ wl_display_create
  \/ wl_display_iterate
  \/ Pass
  \/ wl_display_get_compositor
  \/ ProxyCall

SpecProxy == InitProxy /\ [][NextProxy]_vars


(******************************* claims ************************************)
\* A step of the client, not of the server.
ClientStep == wire' = wire

IsGlobalKind(k) == k \in { "visual", "compositor" }

\* The transport was handed a stream of well-formed messages: the handshake
\* took the whole seed and every message sent is well formed.
WellFormedStream ==
  /\ hs = Len(seed)
  /\ \A i \in 1..Len(kinds) : kinds[i] \in WellFormedKinds

\* C1: a pass that finds a complete header whose declared size exceeds the
\* bytes buffered hands nothing on and leaves the lists and the cursor alone;
\* a later pass that finds that message complete hands it on, once, and moves
\* the cursor past it.
C1_PartialStall ==
  [][ ClientStep /\ pc = "loop" /\ len >= HeaderBytes =>
        /\ len < HeaderSize => UNCHANGED << global_list, visual_list, handled, tail >>
        /\ len >= HeaderSize /\ stalled = tail =>
             /\ Len(handled') = Len(handled) + 1
             /\ handled'[Len(handled')].off = tail
             /\ tail' = tail + HeaderSize
             /\ \A i \in 1..Len(handled) : handled[i].off # tail ]_vars

C7_OversizeFatal ==
  /\ ~overrun
  /\ \A i \in 1..Len(handled) : handled[i].size <= ScratchBytes

\* C8: a pass whose byte count is negative hands nothing on, leaves the lists
\* and the cursor alone and ends the process.
C8_ReadErrorFatal ==
  [][ ClientStep /\ pc = "loop" /\ len < 0 =>
        /\ phase' = "exited"
        /\ UNCHANGED << global_list, visual_list, handled, tail >> ]_vars

\* C8 witness: a session that had handed messages on was ended by a read error.
C8_Witness == phase = "exited" /\ len < 0 /\ handled # << >>

\* C9: a session is returned only when the handshake read took the whole
\* seed; a failed creation leaves no descriptor open.
C9_CreateFailsCleanly ==
  /\ phase = "null" => fd # "open"
  /\ ret = [ op |-> "create", val |-> "display" ] => hs = Len(seed)

\* The interface name of a registered global: the C string in its buffer.
GlobalName(g) == CStr(g.interface)

\* Positions in the registry of the globals named exactly "visual".
VisualGlobals == { i \in 1..Len(global_list) : GlobalName(global_list[i]) = NameVisual }

\* Position in the registry of the k-th global named "visual".
KthVisualGlobal(k) ==
  CHOOSE i \in VisualGlobals : Cardinality({ j \in VisualGlobals : j < i }) = k - 1

\* The call just made is wl_display_get_*_visual number k.
GetVisualStep(k) == ret' # ret /\ ret'.op = "get_visual" /\ ret'.k = k

Matches(name) == { i \in 1..Len(global_list) : GlobalName(global_list[i]) = name }

\* C5: wl_display_get_object_id returns the id of the first global of that
\* name in registration order, 0 when there is none, and leaves the registry
\* as it was.
C5_LookupFirstMatch ==
  [][ ret' # ret /\ ret'.op = "get_object_id" =>
        /\ UNCHANGED << global_list, visual_list >>
        /\ IF Matches(ret'.name) = { }
           THEN ret'.val = Zero32
           ELSE \E i \in Matches(ret'.name) :
                  /\ \A j \in Matches(ret'.name) : i <= j
                  /\ ret'.val = global_list[i].id ]_vars

\* C5 witness: of two globals of the name looked up, registered second and
\* third with different ids, the lookup gave the id of the earlier one.
C5_Witness ==
  /\ ret.op = "get_object_id" /\ ret.name = NameVisual
  /\ Len(global_list) >= 3
  /\ global_list[1].interface # NameVisual
  /\ global_list[2].interface = NameVisual
  /\ global_list[3].interface = NameVisual
  /\ global_list[2].id # global_list[3].id
  /\ ret.val = global_list[2].id

\* C10: the k-th visual accessor, called with fewer than k visuals
\* registered, reports not-found.
C10_InsufficientVisuals ==
  [][ \A k \in 1..3 :
        GetVisualStep(k) /\ Len(visual_list) < k => ret'.val.kind = "notfound" ]_vars

\* A uint32_t as two 16-bit halves, for comparisons.
Hi16(x) == x[3] + 256 * x[4]
Lo16(x) == x[1] + 256 * x[2]
Less32(a, b) == Hi16(a) < Hi16(b) \/ (Hi16(a) = Hi16(b) /\ Lo16(a) < Lo16(b))
IsNext32(a, b) ==
  \/ Hi16(b) = Hi16(a) /\ Lo16(b) = Lo16(a) + 1
  \/ Lo16(a) = 65535 /\ Lo16(b) = 0 /\ Hi16(b) = Hi16(a) + 1

\* C3: once seeded, the counter changes only by an allocation, which returns
\* its value and leaves it one higher: successive allocations return v, v+1,
\* ..., the counter never decreases and no value is returned twice.
C3_MonotonicIds ==
  [][ phase = "ready" /\ hs = Len(seed) /\ id' # id =>
        /\ nalloc' = nalloc + 1
        /\ IsNext32(id, id')
        /\ Less32(id, id') ]_vars

\* C6: a call whose encoding exceeds the 128-byte buffer writes nothing to
\* the transport and nothing past the buffer.
C6_MarshalGuard ==
  ret.op = "call" /\ ret.size > ScratchBytes => ret.wrote = 0 /\ ~overrun

\* The message handed to the transport by the step's last write.
LastWrite == writes'[Len(writes')]
SurfaceIds == { surfaces[i] : i \in 1..Len(surfaces) }

C12_MaskForwarding ==
  [][ /\ wl_display_get_fd =>
           /\ Len(delivered') = Len(delivered) + 1
           /\ delivered'[Len(delivered')] = [ cb |-> update', mask |-> mask ]
           /\ mask' = mask
      /\ update' # 0 =>
           /\ delivered' # << >>
           /\ delivered'[Len(delivered')].cb = update'
           /\ delivered'[Len(delivered')].mask = mask'
      /\ reported' # -1 => mask' = reported' ]_vars

\* C12 witness: the transport reported a mask before any callback was
\* installed, a callback was then installed and told that mask, the transport
\* reported another mask, and that one was delivered too.
C12_Witness ==
  /\ Len(delivered) = 2
  /\ delivered[1].mask # delivered[2].mask
  /\ delivered[1].mask # 0
  /\ delivered[2].cb = update
  /\ delivered[2].mask = reported

\* C13: after wl_display_destroy the descriptor is closed and no wl_global
\* record (with its interface string) and no wl_visual record made by earlier
\* passes is still allocated.
C13_DestroyReleasesAll ==
  phase = "destroyed" => /\ fd = "closed"
                         /\ global_list = << >>
                         /\ visual_list = << >>

\* Decoding of a payload b by signature: a u/i/o/n argument is the next word;
\* a string is the bytes its length word counts, and the next field starts at
\* the following word boundary.
RECURSIVE DemarshalArgs(_, _)
DemarshalArgs(sig, b) ==
  IF sig = << >> THEN << >>
  ELSE IF Head(sig) = "s"
  THEN LET n == Get16(b, 1) IN
       << SubSeq(b, WordBytes + 1, WordBytes + n) >>
         \o DemarshalArgs(Tail(sig),
                          SubSeq(b, WordBytes + 1 + WordBytes * DIV_ROUNDUP(n, WordBytes), Len(b)))
  ELSE << SubSeq(b, 1, WordBytes) >> \o DemarshalArgs(Tail(sig), SubSeq(b, WordBytes + 1, Len(b)))

\* Every byte between the end of a string and the next word boundary is zero.
RECURSIVE PaddingIsZero(_, _)
PaddingIsZero(sig, b) ==
  IF sig = << >> THEN TRUE
  ELSE IF Head(sig) = "s"
  THEN LET n == Get16(b, 1)
           next == WordBytes + 1 + WordBytes * DIV_ROUNDUP(n, WordBytes)
       IN /\ \A j \in (WordBytes + n + 1)..(next - 1) : b[j] = 0
          /\ PaddingIsZero(Tail(sig), SubSeq(b, next, Len(b)))
  ELSE PaddingIsZero(Tail(sig), SubSeq(b, WordBytes + 1, Len(b)))

\* C14: a call whose encoding fits the buffer writes a message that decodes
\* back to the call: the header unpacks to the target's id, the opcode and the
\* number of bytes written, every argument is recovered from the payload, and
\* the bytes after each string up to the next word boundary are zero.
C14_RoundTrip ==
  (ret.op = "call" /\ ret.wrote = 1 /\ ret.size <= ScratchBytes) =>
    LET m == writes[Len(writes)]
        payload == SubSeq(m, HeaderBytes + 1, Len(m))
    IN /\ Get32(m, 1) = ret.target
       /\ Get16(m, 5) = ret.opcode
       /\ Get16(m, 7) = Len(m)
       /\ DemarshalArgs(ret.sig, payload) = ret.argv
       /\ PaddingIsZero(ret.sig, payload)

\* A step of a pass that hands a message on (the process survived it).
DispatchStep == iterate_dispatch /\ phase' # "crashed"
IsGlobalHeader == HeaderObject = U32(DisplayObject) /\ HeaderOpcode = WL_DISPLAY_GLOBAL

C16_DisplayProxyId ==
  phase = "ready" => proxy_id = U32(DisplayObject)

\* C17: no two entries of the registry have the same id, whatever GLOBAL
\* events the server sends.
C17_UniqueGlobalIds ==
  \A i, j \in 1..Len(global_list) : i # j => global_list[i].id # global_list[j].id

\* C18: a pass handles finitely many messages and ends, whatever the buffer
\* holds, headers declaring 0 or another size below 8 included; it never
\* handles the same buffered message twice.  Two entries of the dispatch log
\* at the same offset are the same buffered message handled twice.
C18_NoRepeatedDispatch ==
  \A i, j \in 1..Len(handled) : i # j => handled[i].off # handled[j].off

\* C19: every message a pass handles declares at least the 8 header bytes and
\* at most the bytes left in the pass, and after it the cursor and the local
\* counter have both moved by its size, to the next header.
C19_FramingInSync ==
  [][ DispatchStep =>
        /\ HeaderSize >= HeaderBytes
        /\ HeaderSize <= len
        /\ tail' = tail + HeaderSize
        /\ len' = len - HeaderSize
        /\ tail' \in { ends[i] : i \in 1..Len(ends) } ]_vars

\* The name length a GLOBAL event at the cursor declares (p[1] of its payload).
DeclaredNameLength ==
  LET m == wl_connection_copy(2 * HeaderBytes) IN Get16(m, 13) + 65536 * Get16(m, 15)

\* C20: when a GLOBAL event of declared size S is recorded, its name and its
\* version word lie inside the S bytes of the message and inside the scratch
\* buffer: header, id and length word, the name rounded up to words, the
\* version word.
C20_GlobalDecodeInBounds ==
  [][ (DispatchStep /\ IsGlobalHeader /\ Len(global_list') > Len(global_list)) =>
        LET versionEnd == 2 * HeaderBytes
                            + WordBytes * DIV_ROUNDUP(DeclaredNameLength, WordBytes)
                            + WordBytes
        IN /\ HeaderSize >= 2 * HeaderBytes
           /\ versionEnd <= HeaderSize
           /\ versionEnd <= ScratchBytes ]_vars

====
